---- MODULE Spec2Model ----
(***************************************************************************)
(* Car damage analyzer: src/app.py (remote backend, structured display and *)
(* report) and src/app_local.py (local backend or pre-staged results, raw  *)
(* display and report).                                                    *)
(*                                                                         *)
(* A Python str is a sequence of one-character strings.  Every text the    *)
(* model feeds to the program is written over the characters used below:   *)
(* letters, digits, space, newline, tab and the punctuation { } [ ] : , "  *)
(* / _ - (no backslash, no '.' or exponent after a digit), so the JSON     *)
(* grammar implemented by json_loads is the whole of json.loads on these   *)
(* texts.                                                                  *)
(***************************************************************************)
EXTENDS Integers, Sequences, FiniteSets, TLC

(***************************************************************************)
(* Python str operations used by the program.                              *)
(***************************************************************************)

\* str.lower() on one character
LowerChar(c) ==
    CASE c = "A" -> "a" [] c = "B" -> "b" [] c = "C" -> "c" [] c = "D" -> "d"
      [] c = "E" -> "e" [] c = "F" -> "f" [] c = "G" -> "g" [] c = "H" -> "h"
      [] c = "I" -> "i" [] c = "J" -> "j" [] c = "K" -> "k" [] c = "L" -> "l"
      [] c = "M" -> "m" [] c = "N" -> "n" [] c = "O" -> "o" [] c = "P" -> "p"
      [] c = "Q" -> "q" [] c = "R" -> "r" [] c = "S" -> "s" [] c = "T" -> "t"
      [] c = "U" -> "u" [] c = "V" -> "v" [] c = "W" -> "w" [] c = "X" -> "x"
      [] c = "Y" -> "y" [] c = "Z" -> "z" [] OTHER -> c

\* str.lower()
StrLower(s) == [i \in 1..Len(s) |-> LowerChar(s[i])]

\* sub in s, for two strs: s has sub as a contiguous substring
StrContains(sub, s) ==
    \E i \in 0..(Len(s) - Len(sub)) : SubSeq(s, i + 1, i + Len(sub)) = sub

\* the characters str.strip() removes and json skips between tokens
IsSpace(c) == c \in {" ", "\n", "\t", "\r"}

\* str.strip()
StrStrip(s) ==
    LET keep == {i \in 1..Len(s) : ~IsSpace(s[i])}
    IN  IF keep = {} THEN <<>>
        ELSE SubSeq(s, CHOOSE i \in keep : \A j \in keep : i <= j,
                       CHOOSE i \in keep : \A j \in keep : j <= i)

\* str.split(sep) for a one-character separator: the pieces between the
\* separators, empty pieces included
RECURSIVE StrSplitFrom(_, _, _)
StrSplitFrom(s, sep, start) ==
    LET hits == {i \in start..Len(s) : s[i] = sep}
    IN  IF hits = {} THEN <<SubSeq(s, start, Len(s))>>
        ELSE LET h == CHOOSE i \in hits : \A j \in hits : i <= j
             IN  <<SubSeq(s, start, h - 1)>> \o StrSplitFrom(s, sep, h + 1)

StrSplit(s, sep) == StrSplitFrom(s, sep, 1)

\* sep.join(parts) for a sequence of strs
RECURSIVE StrJoin(_, _)
StrJoin(sep, parts) ==
    IF Len(parts) = 0 THEN <<>>
    ELSE IF Len(parts) = 1 THEN parts[1]
    ELSE parts[1] \o sep \o StrJoin(sep, Tail(parts))

\* str(n) for a non-negative int
RECURSIVE IntToStr(_)
IntToStr(n) ==
    LET d == <<"0", "1", "2", "3", "4", "5", "6", "7", "8", "9">>
    IN  IF n < 10 THEN <<d[n + 1]>> ELSE IntToStr(n \div 10) \o <<d[(n % 10) + 1]>>

(***************************************************************************)
(* Python values.  A value is a record tagged by its type:                 *)
(*   str  [t |-> "str",  s |-> characters]                                 *)
(*   int  [t |-> "int",  n |-> integer]                                    *)
(*   bool [t |-> "bool", b |-> BOOLEAN]                                    *)
(*   None [t |-> "none"]                                                   *)
(*   list [t |-> "list", items |-> sequence of values]                     *)
(*   dict [t |-> "dict", keys |-> sequence of strs, in insertion order,    *)
(*                       vals |-> the values, in the same order]           *)
(***************************************************************************)
PyStr(s) == [t |-> "str", s |-> s]
PyInt(n) == [t |-> "int", n |-> n]
PyBool(b) == [t |-> "bool", b |-> b]
PyNone == [t |-> "none"]
PyList(items) == [t |-> "list", items |-> items]
PyDict(keys, vals) == [t |-> "dict", keys |-> keys, vals |-> vals]

\* d[k] = v on a dict: a key already present keeps its place
DictSet(d, k, v) ==
    IF \E i \in 1..Len(d.keys) : d.keys[i] = k
    THEN LET i == CHOOSE j \in 1..Len(d.keys) : d.keys[j] = k
         IN  PyDict(d.keys, [d.vals EXCEPT ![i] = v])
    ELSE PyDict(Append(d.keys, k), Append(d.vals, v))

\* k in d on a dict
DictHas(d, k) == \E i \in 1..Len(d.keys) : d.keys[i] = k

\* d.get(k, default) on a dict
DictGet(d, k, default) ==
    IF DictHas(d, k)
    THEN d.vals[CHOOSE j \in 1..Len(d.keys) : d.keys[j] = k]
    ELSE default

\* bool(v): Python truthiness
Truthy(v) ==
    CASE v.t = "str"  -> Len(v.s) > 0
      [] v.t = "int"  -> v.n # 0
      [] v.t = "bool" -> v.b
      [] v.t = "none" -> FALSE
      [] v.t = "list" -> Len(v.items) > 0
      [] v.t = "dict" -> Len(v.keys) > 0

(***************************************************************************)
(* json.loads: the recursive-descent decoder of the json module.  A parse  *)
(* step returns [ok, val, pos]: pos is the index after the parsed value.   *)
(***************************************************************************)
ParseFail == [ok |-> FALSE, val |-> PyNone, pos |-> 0]
ParseOk(v, p) == [ok |-> TRUE, val |-> v, pos |-> p]

CharAt(s, i) == IF i >= 1 /\ i <= Len(s) THEN s[i] ELSE "EOF"

IsDigit(c) == c \in {"0", "1", "2", "3", "4", "5", "6", "7", "8", "9"}

DigitVal(c) ==
    CASE c = "0" -> 0 [] c = "1" -> 1 [] c = "2" -> 2 [] c = "3" -> 3
      [] c = "4" -> 4 [] c = "5" -> 5 [] c = "6" -> 6 [] c = "7" -> 7
      [] c = "8" -> 8 [] c = "9" -> 9

\* index of the first non-whitespace character at or after i
RECURSIVE SkipSpace(_, _)
SkipSpace(s, i) == IF IsSpace(CharAt(s, i)) THEN SkipSpace(s, i + 1) ELSE i

\* a string body, i just after the opening quote: up to the closing quote;
\* an unterminated string or a control character in it is an error
RECURSIVE ScanString(_, _, _)
StringChar(s, i, acc, c) ==
    IF c = "EOF" \/ c \in {"\n", "\t", "\r"} THEN ParseFail
    ELSE IF c = "\"" THEN ParseOk(PyStr(acc), i + 1)
    ELSE ScanString(s, i + 1, Append(acc, c))

ScanString(s, i, acc) == StringChar(s, i, acc, CharAt(s, i))

\* the digits of an integer, i at the first digit not yet read
RECURSIVE ScanDigits(_, _, _)
ScanDigits(s, i, acc) ==
    IF IsDigit(CharAt(s, i))
    THEN ScanDigits(s, i + 1, acc * 10 + DigitVal(s[i]))
    ELSE ParseOk(PyInt(acc), i)

\* the integer just read, with its sign
Signed(sign, r) == ParseOk(PyInt(sign * r.val.n), r.pos)

\* -?(0|[1-9][0-9]*), i at the first digit
ScanNumber(s, i, sign) ==
    IF ~IsDigit(CharAt(s, i)) THEN ParseFail
    ELSE IF s[i] = "0" THEN ParseOk(PyInt(0), i + 1)
    ELSE Signed(sign, ScanDigits(s, i, 0))

StartsWithAt(s, i, lit) ==
    i + Len(lit) - 1 <= Len(s) /\ SubSeq(s, i, i + Len(lit) - 1) = lit

RECURSIVE ParseValue(_, _)
RECURSIVE ParseMembers(_, _, _)
RECURSIVE ParseElements(_, _, _)

\* after a member of an object, e at the next token: } ends the object, a
\* comma must be followed by another member
AfterMember(s, e, d) ==
    IF CharAt(s, e) = "}" THEN ParseOk(d, e + 1)
    ELSE IF CharAt(s, e) = "," THEN ParseMembers(s, SkipSpace(s, e + 1), d)
    ELSE ParseFail

\* the value v of the member whose key is k
MemberValue(s, d, k, v) ==
    IF ~v.ok THEN ParseFail
    ELSE AfterMember(s, SkipSpace(s, v.pos), DictSet(d, k.val.s, v.val))

\* after the key k of a member, c at the next token: a colon, then a value
AfterKey(s, d, k, c) ==
    IF CharAt(s, c) # ":" THEN ParseFail
    ELSE MemberValue(s, d, k, ParseValue(s, SkipSpace(s, c + 1)))

\* the key k of a member
MemberKey(s, d, k) == IF ~k.ok THEN ParseFail ELSE AfterKey(s, d, k, SkipSpace(s, k.pos))

\* the members of an object, i at the opening quote of the next key
ParseMembers(s, i, d) ==
    IF CharAt(s, i) # "\"" THEN ParseFail
    ELSE MemberKey(s, d, ScanString(s, i + 1, <<>>))

\* after an element of an array, e at the next token: ] ends the array, a
\* comma must be followed by another element
AfterElement(s, e, items) ==
    IF CharAt(s, e) = "]" THEN ParseOk(PyList(items), e + 1)
    ELSE IF CharAt(s, e) = "," THEN ParseElements(s, SkipSpace(s, e + 1), items)
    ELSE ParseFail

\* the element v of an array
Element(s, items, v) ==
    IF ~v.ok THEN ParseFail
    ELSE AfterElement(s, SkipSpace(s, v.pos), Append(items, v.val))

\* the elements of an array, i at the start of the next element
ParseElements(s, i, items) == Element(s, items, ParseValue(s, i))

\* an object, j at the first token after {
ObjectAt(s, j) ==
    IF CharAt(s, j) = "}" THEN ParseOk(PyDict(<<>>, <<>>), j + 1)
    ELSE ParseMembers(s, j, PyDict(<<>>, <<>>))

\* an array, j at the first token after [
ArrayAt(s, j) ==
    IF CharAt(s, j) = "]" THEN ParseOk(PyList(<<>>), j + 1)
    ELSE ParseElements(s, j, <<>>)

\* the literal lit, which stands for the value v
Literal(s, i, lit, v) == IF StartsWithAt(s, i, lit) THEN ParseOk(v, i + Len(lit)) ELSE ParseFail

\* the value that starts with the character c at i
ValueAt(s, i, c) ==
    CASE c = "\"" -> ScanString(s, i + 1, <<>>)
      [] c = "{" -> ObjectAt(s, SkipSpace(s, i + 1))
      [] c = "[" -> ArrayAt(s, SkipSpace(s, i + 1))
      [] c = "-" -> ScanNumber(s, i + 1, -1)
      [] IsDigit(c) -> ScanNumber(s, i, 1)
      [] c = "t" -> Literal(s, i, <<"t", "r", "u", "e">>, PyBool(TRUE))
      [] c = "f" -> Literal(s, i, <<"f", "a", "l", "s", "e">>, PyBool(FALSE))
      [] c = "n" -> Literal(s, i, <<"n", "u", "l", "l">>, PyNone)
      [] OTHER -> ParseFail

\* one JSON value starting exactly at i
ParseValue(s, i) == ValueAt(s, i, CharAt(s, i))

\* the whole text must be the one value r and whitespace
WholeText(s, r) ==
    IF r.ok /\ SkipSpace(s, r.pos) = Len(s) + 1
    THEN [ok |-> TRUE, val |-> r.val]
    ELSE [ok |-> FALSE, val |-> PyNone]

\* json.loads(s): [ok |-> TRUE, val |-> the value], or ok = FALSE where
\* json.loads raises json.JSONDecodeError (nothing but whitespace may
\* surround the one value)
json_loads(s) == WholeText(s, ParseValue(s, SkipSpace(s, 1)))

(***************************************************************************)
(* Python operations on values that can raise.  Each returns ok = FALSE    *)
(* where Python raises (TypeError or AttributeError).                       *)
(***************************************************************************)

\* iter(v), as "for x in v" and str.join(v) walk it: the items of a list,
\* the characters of a str, the keys of a dict; nothing else is iterable
PyIter(v) ==
    CASE v.t = "list" -> [ok |-> TRUE, items |-> v.items]
      [] v.t = "str"  -> [ok |-> TRUE, items |-> [i \in 1..Len(v.s) |-> PyStr(<<v.s[i]>>)]]
      [] v.t = "dict" -> [ok |-> TRUE, items |-> [i \in 1..Len(v.keys) |-> PyStr(v.keys[i])]]
      [] OTHER        -> [ok |-> FALSE, items |-> <<>>]

\* repr(v), and str(v) of anything but a str
RECURSIVE PyRepr(_)
PyRepr(v) ==
    CASE v.t = "str"  -> <<"'">> \o v.s \o <<"'">>
      [] v.t = "int"  -> IF v.n < 0 THEN <<"-">> \o IntToStr(0 - v.n) ELSE IntToStr(v.n)
      [] v.t = "bool" -> IF v.b THEN <<"T", "r", "u", "e">> ELSE <<"F", "a", "l", "s", "e">>
      [] v.t = "none" -> <<"N", "o", "n", "e">>
      [] v.t = "list" ->
            <<"[">> \o StrJoin(<<",", " ">>, [i \in 1..Len(v.items) |-> PyRepr(v.items[i])])
                    \o <<"]">>
      [] v.t = "dict" ->
            <<"{">> \o StrJoin(<<",", " ">>,
                               [i \in 1..Len(v.keys) |->
                                   PyRepr(PyStr(v.keys[i])) \o <<":", " ">> \o PyRepr(v.vals[i])])
                    \o <<"}">>

\* str(v), as an f-string formats {v}
PyFormat(v) == IF v.t = "str" THEN v.s ELSE PyRepr(v)

\* sep.join of what iter() gave: every item must be a str
JoinItems(sep, it) ==
    IF it.ok /\ \A n \in 1..Len(it.items) : it.items[n].t = "str"
    THEN [ok |-> TRUE, val |-> PyStr(StrJoin(sep, [n \in 1..Len(it.items) |-> it.items[n].s]))]
    ELSE [ok |-> FALSE, val |-> PyNone]

\* sep.join(v): v must be iterable and every item a str
PyJoin(sep, v) == JoinItems(sep, PyIter(v))

(***************************************************************************)
(* String constants of the program.                                        *)
(***************************************************************************)
s_AnalysisFailed == <<"A", "n", "a", "l", "y", "s", "i", "s", " ", "f", "a", "i", "l", "e", "d">>
s_NA == <<"N", "/", "A">>
s_Severe == <<"S", "e", "v", "e", "r", "e">>
s_Moderate == <<"M", "o", "d", "e", "r", "a", "t", "e">>
s_Complex == <<"C", "o", "m", "p", "l", "e", "x">>
s_Medium == <<"M", "e", "d", "i", "u", "m">>
s_critical == <<"c", "r", "i", "t", "i", "c", "a", "l">>
s_response == <<"r", "e", "s", "p", "o", "n", "s", "e">>
s_location == <<"l", "o", "c", "a", "t", "i", "o", "n">>
s_type == <<"t", "y", "p", "e">>
s_severity == <<"s", "e", "v", "e", "r", "i", "t", "y">>
s_repair_complexity ==
    <<"r", "e", "p", "a", "i", "r", "_", "c", "o", "m", "p", "l", "e", "x", "i", "t", "y">>
s_repair_parts == <<"r", "e", "p", "a", "i", "r", "_", "p", "a", "r", "t", "s">>
s_replacement_parts ==
    <<"r", "e", "p", "l", "a", "c", "e", "m", "e", "n", "t", "_", "p", "a", "r", "t", "s">>
s_inspection_areas ==
    <<"i", "n", "s", "p", "e", "c", "t", "i", "o", "n", "_", "a", "r", "e", "a", "s">>
s_repair_methods == <<"r", "e", "p", "a", "i", "r", "_", "m", "e", "t", "h", "o", "d", "s">>
s_repair_time == <<"r", "e", "p", "a", "i", "r", "_", "t", "i", "m", "e">>
s_specialized_requirements ==
    <<"s", "p", "e", "c", "i", "a", "l", "i", "z", "e", "d", "_", "r", "e", "q", "u", "i",
    "r", "e", "m", "e", "n", "t", "s">>
s_safety_considerations ==
    <<"s", "a", "f", "e", "t", "y", "_", "c", "o", "n", "s", "i", "d", "e", "r", "a", "t",
    "i", "o", "n", "s">>
s_Image == <<"I", "m", "a", "g", "e", " ">>
s_dash == <<"-", " ">>
s_comma == <<",", " ">>

\* the keys of CAR_DAMAGE_PROMPTS, in the order the loops walk them
CAR_DAMAGE_PROMPTS == <<"damage_assessment", "part_analysis", "repair_recommendations">>

Aspects == {CAR_DAMAGE_PROMPTS[n] : n \in 1..Len(CAR_DAMAGE_PROMPTS)}

\* results[name] = value on the results dict
SetItem(results, name, value) ==
    [a \in (DOMAIN results) \cup {name} |-> IF a = name THEN value ELSE results[a]]

\* the empty dict
EmptyDict == [a \in {} |-> <<>>]

(***************************************************************************)
(* Uploaded images.  An image is [readable, mode]: Image.open raises on a  *)
(* file that is no image (readable = FALSE); image.save(format="JPEG")     *)
(* raises OSError on a mode JPEG cannot store, such as the RGBA of a PNG   *)
(* with transparency.                                                       *)
(***************************************************************************)
ImageKinds ==
    { [readable |-> TRUE,  mode |-> "RGB"],
      [readable |-> TRUE,  mode |-> "RGBA"],
      [readable |-> FALSE, mode |-> "RGB"] }

\* encode_image_to_base64(image) returns (TRUE) or raises (FALSE)
encode_image_to_base64(image) == image.mode = "RGB"

(***************************************************************************)
(* The backends.  What one call of the remote client can do:               *)
(*   [kind |-> "content", text]  a completion whose content is text        *)
(*   [kind |-> "network"]        the connection fails: an exception        *)
(*   [kind |-> "status"]         a non-success status: an exception        *)
(*   [kind |-> "unparsable"]     a body the client cannot decode: an       *)
(*                               exception                                 *)
(* and one requests.post to the local endpoint:                            *)
(*   [kind |-> "http", status, text]  a reply with a status and a body     *)
(*   [kind |-> "network"]             requests raises                      *)
(* [kind |-> "none"] stands for a call that was never made.  Every reply   *)
(* carries the three fields kind, status and text; a kind that has no      *)
(* status or text leaves it empty.                                         *)
(***************************************************************************)
Content(text) == [kind |-> "content", status |-> 200, text |-> text]
Http(status, text) == [kind |-> "http", status |-> status, text |-> text]
NetworkError == [kind |-> "network", status |-> 0, text |-> <<>>]
StatusError == [kind |-> "status", status |-> 500, text |-> <<>>]
Unparsable == [kind |-> "unparsable", status |-> 200, text |-> <<>>]
NoCall == [kind |-> "none", status |-> 0, text |-> <<>>]

HTTP_OK == 200

(***************************************************************************)
(* analyze_with_llava (app_local.py)                                       *)
(***************************************************************************)

\* 'response' in v (line 107), for v a dict, a list or a str
HasResponse(v) ==
    CASE v.t = "dict" -> DictHas(v, s_response)
      [] v.t = "list" -> \E n \in 1..Len(v.items) : v.items[n] = PyStr(s_response)
      [] v.t = "str"  -> StrContains(s_response, v.s)

\* response_text += x (line 108): only a str can be appended
AddResponse(x) ==
    IF x.t = "str" THEN [do |-> "add", text |-> x.s] ELSE [do |-> "raise", text |-> <<>>]

\* lines 106-110 for the line that json.loads turned into j: "skip" (the
\* line is no JSON, or has no 'response'), "add" (its response is
\* appended) or "raise" (an exception that is no JSONDecodeError)
FragmentOf(j) ==
    IF ~j.ok THEN [do |-> "skip", text |-> <<>>]
    ELSE IF j.val.t \in {"int", "bool", "none"} THEN [do |-> "raise", text |-> <<>>]
    ELSE IF ~HasResponse(j.val) THEN [do |-> "skip", text |-> <<>>]
    ELSE IF j.val.t = "dict" THEN AddResponse(DictGet(j.val, s_response, PyNone))
    ELSE [do |-> "raise", text |-> <<>>]

Fragment(line) == FragmentOf(json_loads(line))

\* lines 102-110: the loop over the lines, from line n on, response_text
\* so far in acc
RECURSIVE Fragments(_, _, _)
FragmentDone(lines, n, acc, f) ==
    IF f.do = "raise" THEN [raised |-> TRUE, text |-> acc]
    ELSE Fragments(lines, n + 1, acc \o f.text)

Fragments(lines, n, acc) ==
    IF n > Len(lines) THEN [raised |-> FALSE, text |-> acc]
    ELSE IF Len(lines[n]) = 0 THEN Fragments(lines, n + 1, acc)
    ELSE FragmentDone(lines, n, acc, Fragment(lines[n]))

\* lines 112-115: what the function returns after the loop
LoopReturn(r) ==
    IF r.raised
    THEN [none |-> TRUE, text |-> <<>>, error |-> "Error parsing response", posted |-> TRUE]
    ELSE [none |-> FALSE, text |-> StrStrip(r.text), error |-> "", posted |-> TRUE]

\* analyze_with_llava(image, prompt) when requests.post does `reply`:
\* [none |-> TRUE] for None, else the text returned; error is the st.error
\* message, "" when there is none; posted tells whether the request went out
analyze_with_llava(image, reply) ==
    IF ~encode_image_to_base64(image)
    THEN [none |-> TRUE, text |-> <<>>, error |-> "Error calling LLaVA API", posted |-> FALSE]
    ELSE IF reply.kind = "network"
    THEN [none |-> TRUE, text |-> <<>>, error |-> "Error calling LLaVA API", posted |-> TRUE]
    ELSE IF reply.status # HTTP_OK
    THEN [none |-> TRUE, text |-> <<>>, error |-> "Error from LLaVA API", posted |-> TRUE]
    ELSE LoopReturn(Fragments(StrSplit(StrStrip(reply.text), "\n"), 1, <<>>))

(***************************************************************************)
(* analyze_car_damage: one turn of the loop over CAR_DAMAGE_PROMPTS.       *)
(* Each returns [results, error]: the dict after the turn and the st.error *)
(* message of the turn ("" when there is none).                            *)
(***************************************************************************)

\* RemoteTurn with an except clause that forgets the assignment of line 83
RemoteTurnDropsKey(results, prompt_name, reply) ==
    IF reply.kind = "content"
    THEN [results |-> SetItem(results, prompt_name, reply.text), error |-> ""]
    ELSE [results |-> results, error |-> "Error in analysis"]

\* RemoteTurn with an except clause that marks every aspect as failed
RemoteTurnClobbers(results, prompt_name, reply) ==
    IF reply.kind = "content"
    THEN [results |-> SetItem(results, prompt_name, reply.text), error |-> ""]
    ELSE [results |-> [a \in (DOMAIN results) \cup {prompt_name} |-> s_AnalysisFailed],
          error |-> "Error in analysis"]

\* app.py lines 55-83
RemoteTurn(results, prompt_name, reply) ==
    IF reply.kind = "content"
    THEN [results |-> SetItem(results, prompt_name, reply.text), error |-> ""]
    ELSE [results |-> SetItem(results, prompt_name, s_AnalysisFailed),
          error |-> "Error in analysis"]

\* app_local.py lines 133-136: "if response:" is false for None and for ""
LocalAssign(results, prompt_name, response) ==
    IF ~response.none /\ Len(response.text) > 0
    THEN [results |-> SetItem(results, prompt_name, response.text), error |-> response.error]
    ELSE [results |-> SetItem(results, prompt_name, s_AnalysisFailed),
          error |-> response.error]

\* app_local.py lines 131-139
LocalTurn(results, prompt_name, image, reply) ==
    LocalAssign(results, prompt_name, analyze_with_llava(image, reply))

(***************************************************************************)
(* Streamlit output.  A widget is [w, label] for fixed text of the program *)
(* or [w, body] for a value of the run; w names the call: st.error is the  *)
(* alert level, st.warning the warning level, st.success the success       *)
(* level, st.info the information level, st.write plain text.              *)
(***************************************************************************)
Expander(label) == [w |-> "expander", label |-> label]
Markdown(label) == [w |-> "markdown", label |-> label]
WarningLabel(label) == [w |-> "warning", label |-> label]
SuccessLabel(label) == [w |-> "success", label |-> label]
StInfo(v) == [w |-> "info", body |-> v]
StError(v) == [w |-> "error", body |-> v]
StWarning(v) == [w |-> "warning", body |-> v]
StSuccess(v) == [w |-> "success", body |-> v]
StWrite(v) == [w |-> "write", body |-> v]

\* a try block that ran to its end, or stopped at an exception, having
\* emitted out
Done(out) == [exc |-> "none", out |-> out]
Raised(exc, out) == [exc |-> exc, out |-> out]

\* an except clause that names json.JSONDecodeError only
JsonOnlyExcept(exc) == exc = "JSONDecodeError"

\* the bare "except:" of display_damage_analysis (app.py lines 117, 135,
\* 162) and of the report loop (line 233) catches every exception
BareExcept(exc) == TRUE

\* try: body / except: st.write(text).  raised tells whether the exception
\* left the section
Section(label, body, text) ==
    IF body.exc = "none" THEN [raised |-> FALSE, out |-> <<Expander(label)>> \o body.out]
    ELSE IF BareExcept(body.exc)
    THEN [raised |-> FALSE, out |-> <<Expander(label)>> \o body.out \o <<StWrite(PyStr(text))>>]
    ELSE [raised |-> TRUE, out |-> <<Expander(label)>> \o body.out]

(***************************************************************************)
(* display_damage_analysis (app.py)                                        *)
(***************************************************************************)

\* lines 102-108
SeverityWidget(severity) ==
    IF severity = PyStr(s_Severe) THEN StError(severity)
    ELSE IF severity = PyStr(s_Moderate) THEN StWarning(severity)
    ELSE StSuccess(severity)

\* lines 110-116
ComplexityWidget(complexity) ==
    IF complexity = PyStr(s_Complex) THEN StError(complexity)
    ELSE IF complexity = PyStr(s_Medium) THEN StWarning(complexity)
    ELSE StSuccess(complexity)

\* SafetyWidget without the .lower() of line 158
SafetyWidgetCaseSensitive(safety_notes) ==
    IF safety_notes.t # "str" THEN [ok |-> FALSE, widget |-> StInfo(safety_notes)]
    ELSE IF StrContains(s_critical, safety_notes.s)
    THEN [ok |-> TRUE, widget |-> StError(safety_notes)]
    ELSE [ok |-> TRUE, widget |-> StInfo(safety_notes)]

\* lines 157-161: "critical" in safety_notes.lower(); only a str has .lower
SafetyWidget(safety_notes) ==
    IF safety_notes.t # "str" THEN [ok |-> FALSE, widget |-> StInfo(safety_notes)]
    ELSE IF StrContains(s_critical, StrLower(safety_notes.s))
    THEN [ok |-> TRUE, widget |-> StError(safety_notes)]
    ELSE [ok |-> TRUE, widget |-> StInfo(safety_notes)]

\* lines 94-116, damage_data being what json.loads returned
DamageFields(damage_data) ==
    IF damage_data.t # "dict"
    THEN Raised("AttributeError", <<Markdown("**Location:**")>>)
    ELSE Done(<< Markdown("**Location:**"),
                 StInfo(DictGet(damage_data, s_location, PyStr(s_NA))),
                 Markdown("**Type:**"),
                 StInfo(DictGet(damage_data, s_type, PyStr(s_NA))),
                 Markdown("**Severity:**"),
                 SeverityWidget(DictGet(damage_data, s_severity, PyStr(s_NA))),
                 Markdown("**Repair Complexity:**"),
                 ComplexityWidget(DictGet(damage_data, s_repair_complexity, PyStr(s_NA))) >>)

\* a try body that starts with json.loads: j is what it did, fields the
\* rest of the body
Loaded(j, fields) == IF ~j.ok THEN Raised("JSONDecodeError", <<>>) ELSE fields

\* lines 93-116: the body of the first try
DamageBody(text) == Loaded(json_loads(text), DamageFields(json_loads(text).val))

\* st.write(f"- {part}") for each item
DashLines(items) == [n \in 1..Len(items) |-> StWrite(PyStr(s_dash \o PyFormat(items[n])))]

\* for part in parts_data.get(key, []): st.write(f"- {part}")
PartLinesOf(it) == [ok |-> it.ok, out |-> DashLines(it.items)]

PartLines(parts_data, key) == PartLinesOf(PyIter(DictGet(parts_data, key, PyList(<<>>))))

\* lines 124-134 on a dict, l1, l2 and l3 being the three loops
PartsLoops(l1, l2, l3) ==
    IF ~l1.ok THEN Raised("TypeError", <<Markdown("**Parts Needing Repair:**")>>)
    ELSE IF ~l2.ok
    THEN Raised("TypeError", <<Markdown("**Parts Needing Repair:**")>> \o l1.out
                                \o <<Markdown("**Parts Needing Replacement:**")>>)
    ELSE IF ~l3.ok
    THEN Raised("TypeError", <<Markdown("**Parts Needing Repair:**")>> \o l1.out
                                \o <<Markdown("**Parts Needing Replacement:**")>> \o l2.out
                                \o <<Markdown("**Areas for Additional Inspection:**")>>)
    ELSE Done(<<Markdown("**Parts Needing Repair:**")>> \o l1.out
                \o <<Markdown("**Parts Needing Replacement:**")>> \o l2.out
                \o <<Markdown("**Areas for Additional Inspection:**")>> \o l3.out)

\* lines 124-134, parts_data being what json.loads returned
PartsFields(parts_data) ==
    IF parts_data.t # "dict"
    THEN Raised("AttributeError", <<Markdown("**Parts Needing Repair:**")>>)
    ELSE PartsLoops(PartLines(parts_data, s_repair_parts),
                    PartLines(parts_data, s_replacement_parts),
                    PartLines(parts_data, s_inspection_areas))

\* lines 123-134: the body of the second try
PartsBody(text) == Loaded(json_loads(text), PartsFields(json_loads(text).val))

\* lines 142-156: what is drawn before the safety note
RepairUpTo(repair_data) ==
    << Markdown("**Repair Methods:**"),
       StInfo(DictGet(repair_data, s_repair_methods, PyStr(s_NA))),
       Markdown("**Estimated Repair Time:**"),
       StInfo(DictGet(repair_data, s_repair_time, PyStr(s_NA))),
       Markdown("**Specialized Requirements:**"),
       IF Truthy(DictGet(repair_data, s_specialized_requirements, PyBool(FALSE)))
       THEN WarningLabel("Requires specialized tools/skills")
       ELSE SuccessLabel("Standard repair"),
       Markdown("**Safety Notes:**") >>

\* lines 157-161 after what was drawn before
RepairSafety(upto, safety) ==
    IF ~safety.ok THEN Raised("AttributeError", upto) ELSE Done(upto \o <<safety.widget>>)

\* lines 142-161, repair_data being what json.loads returned
RepairFields(repair_data) ==
    IF repair_data.t # "dict"
    THEN Raised("AttributeError", <<Markdown("**Repair Methods:**")>>)
    ELSE RepairSafety(RepairUpTo(repair_data),
                      SafetyWidget(DictGet(repair_data, s_safety_considerations, PyStr(s_NA))))

\* lines 140-161: the body of the third try
RepairBody(text) == Loaded(json_loads(text), RepairFields(json_loads(text).val))

\* the three sections in turn; a section that raises ends the function.
\* sections is the output of each section that was entered, raised
\* whether the function raised
Sections(s1, s2, s3) ==
    IF s1.raised THEN [raised |-> TRUE, sections |-> <<s1.out>>]
    ELSE IF s2.raised THEN [raised |-> TRUE, sections |-> <<s1.out, s2.out>>]
    ELSE [raised |-> s3.raised, sections |-> <<s1.out, s2.out, s3.out>>]

\* display_damage_analysis(results) of app.py (lines 87-163)
display_damage_analysis(results) ==
    Sections(Section("Damage Assessment", DamageBody(results["damage_assessment"]),
                     results["damage_assessment"]),
             Section("Parts Analysis", PartsBody(results["part_analysis"]),
                     results["part_analysis"]),
             Section("Repair Recommendations",
                     RepairBody(results["repair_recommendations"]),
                     results["repair_recommendations"]))

\* display_damage_analysis(results) of app_local.py (lines 143-156)
display_raw(results) ==
    [raised |-> FALSE,
     sections |-> << <<Expander("Damage Assessment"), StWrite(PyStr(results["damage_assessment"]))>>,
                     <<Expander("Parts Analysis"), StWrite(PyStr(results["part_analysis"]))>>,
                     <<Expander("Repair Recommendations"),
                       StWrite(PyStr(results["repair_recommendations"]))>> >>]

(***************************************************************************)
(* The report rows of main.  A row maps column names to values.            *)
(***************************************************************************)

\* f"Image {i+1}", n being i+1
ImageLabel(n) == PyStr(s_Image \o IntToStr(n))

\* RowData with the Severity column read from repair_complexity
RowDataSeverityFromComplexity(n, damage_data, repair_data, joined) ==
    ("Image" :> ImageLabel(n))
      @@ ("Damage Location" :> DictGet(damage_data, s_location, PyStr(s_NA)))
      @@ ("Damage Type" :> DictGet(damage_data, s_type, PyStr(s_NA)))
      @@ ("Severity" :> DictGet(damage_data, s_repair_complexity, PyStr(s_NA)))
      @@ ("Repair Complexity" :> DictGet(damage_data, s_repair_complexity, PyStr(s_NA)))
      @@ ("Parts to Replace" :> joined)
      @@ ("Estimated Repair Time" :> DictGet(repair_data, s_repair_time, PyStr(s_NA)))
      @@ ("Special Requirements" :>
              DictGet(repair_data, s_specialized_requirements, PyStr(s_NA)))

\* lines 223-232: the row built from the three dicts; joined is the
\* ", ".join of line 229
RowData(n, damage_data, repair_data, joined) ==
    ("Image" :> ImageLabel(n))
      @@ ("Damage Location" :> DictGet(damage_data, s_location, PyStr(s_NA)))
      @@ ("Damage Type" :> DictGet(damage_data, s_type, PyStr(s_NA)))
      @@ ("Severity" :> DictGet(damage_data, s_severity, PyStr(s_NA)))
      @@ ("Repair Complexity" :> DictGet(damage_data, s_repair_complexity, PyStr(s_NA)))
      @@ ("Parts to Replace" :> joined)
      @@ ("Estimated Repair Time" :> DictGet(repair_data, s_repair_time, PyStr(s_NA)))
      @@ ("Special Requirements" :>
              DictGet(repair_data, s_specialized_requirements, PyStr(s_NA)))

\* the exception lines 219-232 raise, "none" when they raise nothing
RowException(d, p, r) ==
    IF ~d.ok \/ ~p.ok \/ ~r.ok THEN "JSONDecodeError"
    ELSE IF d.val.t # "dict" \/ p.val.t # "dict" THEN "AttributeError"
    ELSE IF ~PyJoin(s_comma, DictGet(p.val, s_replacement_parts, PyList(<<>>))).ok
    THEN "TypeError"
    ELSE IF r.val.t # "dict" THEN "AttributeError"
    ELSE "none"

\* lines 218-234, exc being the exception of the try body
RowOrSkip(n, d, p, r, exc) ==
    IF exc # "none"
    THEN [row |-> FALSE, raised |-> ~BareExcept(exc), data |-> <<>>]
    ELSE [row |-> TRUE, raised |-> FALSE,
          data |-> RowData(n, d.val, r.val,
                           PyJoin(s_comma,
                                  DictGet(p.val, s_replacement_parts, PyList(<<>>))).val)]

\* lines 218-234 with the three texts loaded
RowOf(n, d, p, r) == RowOrSkip(n, d, p, r, RowException(d, p, r))

\* app.py lines 218-234: [row |-> TRUE, data] when a row is appended,
\* [row |-> FALSE] when the except clause skips the image, raised when the
\* exception leaves the loop
report_row(n, results) ==
    RowOf(n, json_loads(results["damage_assessment"]), json_loads(results["part_analysis"]),
          json_loads(results["repair_recommendations"]))

\* app_local.py lines 215-220
report_row_raw(n, results) ==
    [row |-> TRUE, raised |-> FALSE,
     data |-> ("Image" :> ImageLabel(n))
           @@ ("Damage Assessment" :> PyStr(results["damage_assessment"]))
           @@ ("Parts Analysis" :> PyStr(results["part_analysis"]))
           @@ ("Repair Recommendations" :> PyStr(results["repair_recommendations"]))]

(***************************************************************************)
(* The texts the backends answer with.                                     *)
(***************************************************************************)
Quote(s) == <<"\"">> \o s \o <<"\"">>
Member(key, value) == Quote(key) \o <<":", " ">> \o value
Object(members) == <<"{">> \o StrJoin(s_comma, members) \o <<"}">>
Array(elements) == <<"[">> \o StrJoin(s_comma, elements) \o <<"]">>

w_door == <<"d", "o", "o", "r">>
w_dent == <<"d", "e", "n", "t">>
w_bumper == <<"b", "u", "m", "p", "e", "r">>
w_hood == <<"h", "o", "o", "d">>
w_frame == <<"f", "r", "a", "m", "e">>
w_weld == <<"w", "e", "l", "d">>
w_2days == <<"2", " ", "d", "a", "y", "s">>
w_NoCriticalIssues ==
    <<"N", "o", " ", "c", "r", "i", "t", "i", "c", "a", "l", " ", "i", "s", "s", "u", "e",
    "s">>
w_SevereDent == <<"S", "e", "v", "e", "r", "e", " ", "d", "e", "n", "t">>
w_notjson == <<"n", "o", "t", " ", "j", "s", "o", "n">>
w_true == <<"t", "r", "u", "e">>

\* the structured answers of the end-to-end scenario
DamageSevere ==
    Object(<< Member(s_location, Quote(w_door)), Member(s_type, Quote(w_dent)),
              Member(s_severity, Quote(s_Severe)),
              Member(s_repair_complexity, Quote(s_Complex)) >>)

PartsLists ==
    Object(<< Member(s_repair_parts, Array(<<Quote(w_door)>>)),
              Member(s_replacement_parts, Array(<<Quote(w_bumper), Quote(w_hood)>>)),
              Member(s_inspection_areas, Array(<<Quote(w_frame)>>)) >>)

RepairNoCritical ==
    Object(<< Member(s_repair_methods, Quote(w_weld)), Member(s_repair_time, Quote(w_2days)),
              Member(s_specialized_requirements, w_true),
              Member(s_safety_considerations, Quote(w_NoCriticalIssues)) >>)

\* an answer in prose, a JSON array, and an object whose safety note is a
\* number
PartsArray == Array(<<Quote(w_hood)>>)
RepairNumberNote == Object(<<Member(s_safety_considerations, <<"5">>)>>)

\* the contents the remote backend may answer a prompt with
RemoteTexts(prompt_name) ==
    CASE prompt_name = "damage_assessment"      -> {DamageSevere, w_SevereDent}
      [] prompt_name = "part_analysis"          -> {PartsLists, PartsArray}
      [] prompt_name = "repair_recommendations" -> {RepairNoCritical, RepairNumberNote}

\* what one call of the remote client may do
RemoteReplies(prompt_name) ==
    {Content(text) : text \in RemoteTexts(prompt_name)}
        \cup {NetworkError, StatusError, Unparsable}

\* a body of two fragments, and a body with no fragment that parses
BodyTwoFragments ==
    Object(<<Member(s_response, Quote(<<"S", "e", "v", "e", "r", "e", " ">>))>>) \o <<"\n">>
        \o Object(<<Member(s_response, Quote(w_dent))>>) \o <<"\n">>

\* what one requests.post to the local backend may do
LocalReplies ==
    {Http(200, BodyTwoFragments), Http(200, w_notjson), Http(500, w_notjson), NetworkError}

\* PRESTAGED_RESULTS (app_local.py lines 17-57), each text cut to its
\* first words
PRESTAGED_RESULTS ==
    [a \in Aspects |->
        CASE a = "damage_assessment" ->
                <<"T", "h", "e", " ", "d", "a", "m", "a", "g", "e", " ", "i", "s">>
          [] a = "part_analysis" ->
                <<"T", "h", "e", " ", "c", "a", "r", " ", "d", "a", "m", "a", "g", "e">>
          [] a = "repair_recommendations" ->
                <<"R", "e", "p", "a", "i", "r", " ", "m", "e", "t", "h", "o", "d", "s", ":">>]

(***************************************************************************)
(* main: one run of the script with the files the user uploaded.           *)
(***************************************************************************)
MaxFiles == 2

VARIABLES
    program,        \* "app" (app.py) or "app_local" (app_local.py)
    use_prestaged,  \* the checkbox of app_local.py
    uploaded_files, \* the uploaded images, in upload order
    pc,             \* where main is
    pass,           \* "show": the loop of lines 192-210; "report": lines 214-234
    i,              \* the image of the current turn, 1 for the first
    k,              \* prompts done in the current analyze_car_damage
    results,        \* the dict analyze_car_damage is building or has returned
    outcomes,       \* what the backend did for each prompt of this analysis
    st_errors,      \* the st.error messages of this analysis
    calls,          \* requests sent to the backend so far, per image and prompt
    screen,         \* what display_damage_analysis last drew, and for what
    shown,          \* images whose analysis has been drawn
    report_data,    \* the rows of the report
    downloads,      \* the tables offered by a download button
    arg,            \* the input of the function under test
    ret             \* its result

vars == << program, use_prestaged, uploaded_files, pc, pass, i, k, results, outcomes,
           st_errors, calls, screen, shown, report_data, downloads, arg, ret >>

Files == UNION {[1..n -> ImageKinds] : n \in 0..MaxFiles}

NoScreen == [image |-> 0, results |-> EmptyDict, sections |-> <<>>]

Init ==
    /\ program \in {"app", "app_local"}
    /\ use_prestaged \in (IF program = "app" THEN {FALSE} ELSE BOOLEAN)
    /\ uploaded_files \in Files
    /\ pc = "start"
    /\ pass = "show"
    /\ i = 0
    /\ k = 0
    /\ results = EmptyDict
    /\ outcomes = EmptyDict
    /\ st_errors = <<>>
    /\ calls = [c \in (1..Len(uploaded_files)) \X Aspects |-> 0]
    /\ screen = NoScreen
    /\ shown = 0
    /\ report_data = <<>>
    /\ downloads = <<>>
    /\ arg = <<>>
    /\ ret = <<>>

\* app.py lines 183-190, app_local.py lines 180-186: nothing happens
\* without files
Start ==
    /\ pc = "start"
    /\ IF Len(uploaded_files) = 0
       THEN pc' = "done" /\ i' = i
       ELSE pc' = "open" /\ i' = 1
    /\ UNCHANGED << program, use_prestaged, uploaded_files, pass, k, results, outcomes,
                    st_errors, calls, screen, shown, report_data, downloads, arg, ret >>

\* Image.open(file): app.py lines 200 and 215, app_local.py lines 197 and
\* 212.  No try surrounds it
OpenImage ==
    /\ pc = "open"
    /\ pc' = IF uploaded_files[i].readable THEN "enter" ELSE "raised"
    /\ UNCHANGED << program, use_prestaged, uploaded_files, pass, i, k, results, outcomes,
                    st_errors, calls, screen, shown, report_data, downloads, arg, ret >>

\* the entry of analyze_car_damage: app.py lines 51-52 (the image is
\* encoded outside any try), app_local.py lines 126-129
EnterAnalysis ==
    /\ pc = "enter"
    /\ IF program = "app" /\ ~encode_image_to_base64(uploaded_files[i])
       THEN pc' = "raised" /\ UNCHANGED <<results, outcomes, st_errors, k>>
       ELSE /\ outcomes' = EmptyDict
            /\ st_errors' = <<>>
            /\ k' = 0
            /\ IF program = "app_local" /\ use_prestaged
               THEN results' = PRESTAGED_RESULTS /\ pc' = "returned"
               ELSE results' = EmptyDict /\ pc' = "prompt"
    /\ UNCHANGED << program, use_prestaged, uploaded_files, pass, i, calls, screen, shown,
                    report_data, downloads, arg, ret >>

\* the state after one turn of the loop, the backend having done `reply`
AfterTurn(turn, prompt_name, reply, posted) ==
    /\ results' = turn.results
    /\ outcomes' = SetItem(outcomes, prompt_name, reply)
    /\ st_errors' = IF turn.error = "" THEN st_errors ELSE Append(st_errors, turn.error)
    /\ calls' = IF posted THEN [calls EXCEPT ![<<i, prompt_name>>] = @ + 1] ELSE calls
    /\ k' = k + 1
    /\ pc' = IF k + 1 = Len(CAR_DAMAGE_PROMPTS) THEN "returned" ELSE "prompt"

\* one turn of the loop of analyze_car_damage: app.py lines 54-83,
\* app_local.py lines 130-139
Prompt ==
    /\ pc = "prompt"
    /\ IF program = "app"
       THEN \E reply \in RemoteReplies(CAR_DAMAGE_PROMPTS[k + 1]) :
                AfterTurn(RemoteTurn(results, CAR_DAMAGE_PROMPTS[k + 1], reply),
                          CAR_DAMAGE_PROMPTS[k + 1], reply, TRUE)
       ELSE \E reply \in (IF encode_image_to_base64(uploaded_files[i])
                          THEN LocalReplies ELSE {NoCall}) :
                AfterTurn(LocalTurn(results, CAR_DAMAGE_PROMPTS[k + 1], uploaded_files[i], reply),
                          CAR_DAMAGE_PROMPTS[k + 1], reply, reply.kind # "none")
    /\ UNCHANGED << program, use_prestaged, uploaded_files, pass, i, screen, shown,
                    report_data, downloads, arg, ret >>

\* the next image of the current loop, or what follows the loop
NextImage(after) ==
    IF i < Len(uploaded_files)
    THEN i' = i + 1 /\ pc' = "open" /\ pass' = pass
    ELSE i' = 1 /\ after

\* the state after display_damage_analysis did d
Drawn(d) ==
    /\ screen' = [image |-> i, results |-> results, sections |-> d.sections]
    /\ IF d.raised
       THEN pc' = "raised" /\ UNCHANGED <<shown, i, pass>>
       ELSE /\ shown' = shown + 1
            /\ NextImage(pc' = "open" /\ pass' = "report")

\* app.py lines 206-210, app_local.py lines 203-207: the results are drawn;
\* after the last image the report loop starts (lines 213-214)
Display ==
    /\ pc = "returned" /\ pass = "show"
    /\ Drawn(IF program = "app" THEN display_damage_analysis(results) ELSE display_raw(results))
    /\ report_data' = <<>>
    /\ UNCHANGED << program, use_prestaged, uploaded_files, k, results, outcomes, st_errors,
                    calls, downloads, arg, ret >>

\* the state after the report loop did r for the image
Reported(r) ==
    /\ report_data' = IF r.row THEN Append(report_data, r.data) ELSE report_data
    /\ IF r.raised
       THEN pc' = "raised" /\ UNCHANGED <<i, pass>>
       ELSE NextImage(pc' = "export" /\ pass' = pass)

\* app.py lines 218-234, app_local.py lines 215-220: the row of the image
AppendRow ==
    /\ pc = "returned" /\ pass = "report"
    /\ Reported(IF program = "app" THEN report_row(i, results) ELSE report_row_raw(i, results))
    /\ UNCHANGED << program, use_prestaged, uploaded_files, k, results, outcomes, st_errors,
                    calls, screen, shown, downloads, arg, ret >>

\* app.py lines 236-251, app_local.py lines 222-237: a table with rows is
\* written to a spreadsheet and offered for download
Export ==
    /\ pc = "export"
    /\ downloads' = IF Len(report_data) > 0 THEN Append(downloads, report_data) ELSE downloads
    /\ pc' = "done"
    /\ UNCHANGED << program, use_prestaged, uploaded_files, pass, i, k, results, outcomes,
                    st_errors, calls, screen, shown, report_data, arg, ret >>

Next == Start \/ OpenImage \/ EnterAnalysis \/ Prompt \/ Display \/ AppendRow \/ Export

Spec == Init /\ [][Next]_vars

(***************************************************************************)
(* analyze_with_llava on its own: every body of up to MaxFragments lines   *)
(* drawn from FragmentLines.                                               *)
(***************************************************************************)
MaxFragments == 2

w_done == <<"d", "o", "n", "e">>
w_notext == <<"n", "o", " ", "t", "e", "x", "t">>
w_theresponse == <<"t", "h", "e", " ", "r", "e", "s", "p", "o", "n", "s", "e">>
w_null == <<"n", "u", "l", "l">>

\* the lines a body is made of: objects with a response (with and without
\* whitespace at an end), an object without one, a line that is no JSON,
\* JSON values that are no object, an object whose response is no str, and
\* an empty line
FragmentLines ==
    { Object(<<Member(s_response, Quote(<<"S", "e", "v", "e", "r", "e", " ">>))>>),
      Object(<<Member(s_response, Quote(w_dent))>>),
      Object(<<Member(s_response, Quote(<<" ", "d", "o", "o", "r">>))>>),
      Object(<<Member(w_done, w_true)>>),
      w_notjson,
      <<"5">>,
      w_null,
      Quote(w_notext),
      Quote(w_theresponse),
      Array(<<Quote(w_dent)>>),
      Object(<<Member(s_response, <<"5">>)>>),
      <<>> }

\* the body whose lines are ls, each ended by a newline
BodyOf(ls) == IF Len(ls) = 0 THEN <<>> ELSE StrJoin(<<"\n">>, ls) \o <<"\n">>

Bodies == {BodyOf(ls) : ls \in UNION {[1..n -> FragmentLines] : n \in 0..MaxFragments}}

LlavaArgs ==
    {[image |-> [readable |-> TRUE, mode |-> "RGB"], reply |-> r] :
        r \in {Http(200, b) : b \in Bodies} \cup {Http(500, w_notjson), NetworkError}}
      \cup {[image |-> [readable |-> TRUE, mode |-> "RGBA"], reply |-> NoCall]}

\* main is not running
NoRun ==
    /\ use_prestaged = FALSE
    /\ uploaded_files = <<>>
    /\ pass = "show"
    /\ i = 0
    /\ k = 0
    /\ results = EmptyDict
    /\ outcomes = EmptyDict
    /\ st_errors = <<>>
    /\ calls = [c \in {} |-> 0]
    /\ screen = NoScreen
    /\ shown = 0
    /\ report_data = <<>>
    /\ downloads = <<>>

InitLlava ==
    /\ program = "app_local"
    /\ NoRun
    /\ pc = "call"
    /\ arg \in LlavaArgs
    /\ ret = <<>>

\* analyze_with_llava(image, prompt), app_local.py lines 85-122
CallLlava ==
    /\ pc = "call"
    /\ ret' = analyze_with_llava(arg.image, arg.reply)
    /\ pc' = "called"
    /\ UNCHANGED << program, use_prestaged, uploaded_files, pass, i, k, results, outcomes,
                    st_errors, calls, screen, shown, report_data, downloads, arg >>

NextLlava == CallLlava

SpecLlava == InitLlava /\ [][NextLlava]_vars

(***************************************************************************)
(* display_damage_analysis of app.py on its own: every results dict whose  *)
(* three texts are drawn from DamageTexts, PartsTexts and RepairTexts.     *)
(***************************************************************************)
w_Minor == <<"M", "i", "n", "o", "r">>
w_Easy == <<"E", "a", "s", "y">>
w_CRITICAL == <<"C", "R", "I", "T", "I", "C", "A", "L">>
w_CriticalHazard ==
    <<"A", " ", "C", "r", "i", "t", "i", "c", "a", "l", " ", "h", "a", "z", "a", "r", "d">>
w_safe == <<"s", "a", "f", "e", " ", "t", "o", " ", "d", "r", "i", "v", "e">>
w_criticl == <<"n", "o", "t", " ", "c", "r", "i", "t", "i", "c", "l">>
w_false == <<"f", "a", "l", "s", "e">>

\* a member, or nothing when the value is absent (<<>>)
Optional(key, value) == IF value = <<>> THEN <<>> ELSE <<Member(key, value)>>

SeverityValues ==
    {Quote(s_Severe), Quote(s_Moderate), Quote(w_Minor), Quote(StrLower(s_Severe)), <<"5">>, <<>>}

ComplexityValues == {Quote(s_Complex), Quote(s_Medium), Quote(w_Easy), <<>>}

DamageTexts ==
    {Object(Optional(s_severity, sv) \o Optional(s_repair_complexity, cx)) :
        sv \in SeverityValues, cx \in ComplexityValues}
      \cup {w_SevereDent, s_AnalysisFailed, Quote(s_Severe), Array(<<Quote(s_Severe)>>),
            <<"5">>, w_null}

PartsTexts ==
    { PartsLists, PartsArray, w_notjson,
      Object(<<Member(s_repair_parts, Array(<<Quote(w_door)>>)),
               Member(s_replacement_parts, <<"5">>)>>),
      Object(<<Member(s_inspection_areas, Quote(w_door))>>) }

SafetyValues ==
    {Quote(w_NoCriticalIssues), Quote(w_CRITICAL), Quote(w_CriticalHazard), Quote(w_safe),
     Quote(w_criticl), <<"5">>, w_null, <<>>}

RepairTexts ==
    {Object(Optional(s_specialized_requirements, sp) \o Optional(s_safety_considerations, sf)) :
        sp \in {w_true, w_false, <<>>}, sf \in SafetyValues}
      \cup {w_notjson, s_AnalysisFailed, Array(<<Quote(w_CRITICAL)>>)}

DisplayArgs ==
    {[a \in Aspects |-> CASE a = "damage_assessment" -> d
                          [] a = "part_analysis" -> p
                          [] a = "repair_recommendations" -> r] :
        d \in DamageTexts, p \in PartsTexts, r \in RepairTexts}

InitDisplay ==
    /\ program = "app"
    /\ NoRun
    /\ pc = "call"
    /\ arg \in DisplayArgs
    /\ ret = <<>>

\* display_damage_analysis(results), app.py lines 87-163
CallDisplay ==
    /\ pc = "call"
    /\ ret' = display_damage_analysis(arg)
    /\ pc' = "called"
    /\ UNCHANGED << program, use_prestaged, uploaded_files, pass, i, k, results, outcomes,
                    st_errors, calls, screen, shown, report_data, downloads, arg >>

NextDisplay == CallDisplay

SpecDisplay == InitDisplay /\ [][NextDisplay]_vars

(***************************************************************************)
(* The claims.                                                             *)
(***************************************************************************)

\* no line of the body parses as JSON
NoFragmentParses(text) ==
    \A line \in {StrSplit(StrStrip(text), "\n")[n] :
                    n \in 1..Len(StrSplit(StrStrip(text), "\n"))} :
        ~json_loads(line).ok

\* the backend call ended in a network error, a non-success status or an
\* unparsable body, or could not be made at all
BackendFailed(o) ==
    \/ o.kind \in {"network", "status", "unparsable", "none"}
    \/ o.kind = "http" /\ (o.status # 200 \/ NoFragmentParses(o.text))

\* what a call that did not fail returned
ReturnedText(o) ==
    IF o.kind = "content" THEN o.text
    ELSE analyze_with_llava([readable |-> TRUE, mode |-> "RGB"], o).text

\* C1: whenever analyze_car_damage has returned (remote, local or
\* pre-staged), the mapping has exactly the three keys damage_assessment,
\* part_analysis and repair_recommendations, and every aspect whose backend
\* call failed is present with the value "Analysis failed".
C1_ThreeKeys ==
    pc = "returned" =>
        /\ DOMAIN results = {"damage_assessment", "part_analysis", "repair_recommendations"}
        /\ \A a \in DOMAIN outcomes :
              BackendFailed(outcomes[a]) => results[a] = s_AnalysisFailed

\* C1 witness: an analysis has returned with a failed and a successful call
C1_Witness ==
    /\ pc = "returned"
    /\ \E a, b \in DOMAIN outcomes :
          BackendFailed(outcomes[a]) /\ ~BackendFailed(outcomes[b])

\* C2: within one analyze_car_damage, at every point of the loop and at
\* its return, an aspect whose call failed has the value "Analysis failed",
\* every other aspect done so far has exactly the text its own call
\* returned, and the loop goes on to the remaining aspects: at the return
\* all three prompts were processed, each with a request when the image
\* could be encoded.
C2_FailureIsolated ==
    (pc \in {"prompt", "returned"} /\ ~(program = "app_local" /\ use_prestaged)) =>
        /\ DOMAIN results = DOMAIN outcomes
        /\ \A a \in DOMAIN outcomes :
              results[a] = IF BackendFailed(outcomes[a]) THEN s_AnalysisFailed
                           ELSE ReturnedText(outcomes[a])
        /\ pc = "returned" =>
              /\ DOMAIN outcomes = Aspects
              /\ \A a \in Aspects :
                    encode_image_to_base64(uploaded_files[i]) =>
                        outcomes[a].kind # "none" /\ calls[<<i, a>>] >= 1

\* C2 witness: the first call failed, and the two later ones went out and
\* kept their own texts
C2_Witness ==
    /\ pc = "returned"
    /\ DOMAIN outcomes = Aspects
    /\ outcomes["damage_assessment"].kind = "network"
    /\ ~BackendFailed(outcomes["part_analysis"])
    /\ ~BackendFailed(outcomes["repair_recommendations"])
    /\ results["repair_recommendations"] # s_AnalysisFailed

\* C3: once the report loop is over, the table has exactly one row per
\* uploaded image, labelled "Image 1" .. "Image N" in upload order; no
\* image is skipped, whatever its aspect texts are.
C3_OneRowPerImage ==
    pc \in {"export", "done"} =>
        /\ Len(report_data) = Len(uploaded_files)
        /\ \A n \in 1..Len(report_data) : report_data[n]["Image"] = ImageLabel(n)

\* C4: no error condition aborts a run: main never ends in an exception,
\* and at its end every uploaded image has had its analysis drawn.
C4_NeverAborts ==
    /\ pc # "raised"
    /\ pc = "done" => shown = Len(uploaded_files)

\* the text of a fragment that parses as JSON and has a response field,
\* nothing for any other fragment
ResponseOf(j) ==
    IF j.ok /\ j.val.t = "dict" /\ DictHas(j.val, s_response)
            /\ DictGet(j.val, s_response, PyNone).t = "str"
    THEN DictGet(j.val, s_response, PyNone).s
    ELSE <<>>

\* the response fields of the fragments from line n on, in document order
RECURSIVE ConcatResponses(_, _)
ConcatResponses(lines, n) ==
    IF n > Len(lines) THEN <<>>
    ELSE ResponseOf(json_loads(lines[n])) \o ConcatResponses(lines, n + 1)

\* C5: for a status-200 body of newline-delimited fragments,
\* analyze_with_llava returns the concatenation, in document order, of the
\* response field of every fragment that parses as JSON and has it; any
\* other fragment is skipped and never turns the call into a failure.
C5_ConcatenatesFragments ==
    (pc = "called" /\ arg.reply.kind = "http" /\ arg.reply.status = 200) =>
        /\ ~ret.none
        /\ ret.text = ConcatResponses(StrSplit(arg.reply.text, "\n"), 1)

\* C6: each (image, prompt) pair is sent to the backend at most once at
\* any time, and exactly once over a complete run with a live backend.
C6_OneCallPerPair ==
    /\ \A c \in DOMAIN calls : calls[c] <= 1
    /\ (pc = "done" /\ ~(program = "app_local" /\ use_prestaged)) =>
          \A c \in DOMAIN calls : calls[c] = 1

\* C7: a run of main with at least one uploaded image ends with exactly
\* one spreadsheet offered for download, and never offers more than one.
C7_OneSpreadsheet ==
    /\ Len(downloads) <= 1
    /\ (pc = "done" /\ Len(uploaded_files) >= 1) => Len(downloads) = 1

\* the text of section n, and what json.loads makes of it
SectionText(n) == arg[CAR_DAMAGE_PROMPTS[n]]
SectionJson(n) == json_loads(SectionText(n))

\* the text of section n is no valid JSON, or is JSON that is no object, or
\* (third section) an object whose safety note is no string
Malformed(n) ==
    \/ ~SectionJson(n).ok
    \/ SectionJson(n).val.t # "dict"
    \/ /\ n = 3
       /\ DictGet(SectionJson(n).val, s_safety_considerations, PyStr(s_NA)).t # "str"

\* C8: display_damage_analysis never raises: all three sections are
\* rendered whatever the three texts are, and a section whose text is not
\* valid JSON, not an object, or has a non-string safety note ends with the
\* original text written unchanged as plain text.
C8_DisplayNeverRaises ==
    pc = "called" =>
        /\ ~ret.raised
        /\ Len(ret.sections) = 3
        /\ \A n \in 1..3 :
              Malformed(n) =>
                  ret.sections[n][Len(ret.sections[n])] = StWrite(PyStr(SectionText(n)))

\* C8 witness: the first text is no JSON, the second is a JSON array, the
\* third an object with a numeric safety note, and the display was drawn
C8_Witness ==
    /\ pc = "called"
    /\ ~SectionJson(1).ok
    /\ SectionJson(2).ok /\ SectionJson(2).val.t = "list"
    /\ SectionJson(3).ok /\ SectionJson(3).val.t = "dict"
    /\ DictGet(SectionJson(3).val, s_safety_considerations, PyStr(s_NA)).t = "int"

\* the widget drawn right after the heading `label` in a section
WidgetAfter(section, label) ==
    section[(CHOOSE n \in 1..Len(section) : section[n] = Markdown(label)) + 1]

\* "critical" occurs in s in any letter case
ContainsCriticalAnyCase(s) ==
    \E p \in 0..(Len(s) - 8) :
        \A j \in 1..8 : s[p + j] \in {s_critical[j], w_CRITICAL[j]}

\* the level the claim gives a severity or complexity value
LevelOf(v, alert, warn) ==
    IF v = PyStr(alert) THEN "error" ELSE IF v = PyStr(warn) THEN "warning" ELSE "success"

\* the fields of the structured texts, with the defaults of absent fields
SeverityField == DictGet(SectionJson(1).val, s_severity, PyStr(s_NA))
ComplexityField == DictGet(SectionJson(1).val, s_repair_complexity, PyStr(s_NA))
SafetyField == DictGet(SectionJson(3).val, s_safety_considerations, PyStr(s_NA))

\* C9: for structured results the styling depends on the field values
\* only: severity "Severe" and repair_complexity "Complex" are drawn at
\* alert level, "Moderate" and "Medium" at warning level, any other value
\* (the "N/A" of an absent field included) at success level; a safety note
\* that contains "critical" in any letter case is drawn at alert level
\* whatever the other fields are, any other note at info level.
C9_StylingByValue ==
    pc = "called" =>
        /\ (SectionJson(1).ok /\ SectionJson(1).val.t = "dict") =>
              /\ WidgetAfter(ret.sections[1], "**Severity:**")
                    = [w |-> LevelOf(SeverityField, s_Severe, s_Moderate),
                       body |-> SeverityField]
              /\ WidgetAfter(ret.sections[1], "**Repair Complexity:**")
                    = [w |-> LevelOf(ComplexityField, s_Complex, s_Medium),
                       body |-> ComplexityField]
        /\ (SectionJson(3).ok /\ SectionJson(3).val.t = "dict" /\ SafetyField.t = "str") =>
              WidgetAfter(ret.sections[3], "**Safety Notes:**")
                  = [w |-> IF ContainsCriticalAnyCase(SafetyField.s) THEN "error" ELSE "info",
                     body |-> SafetyField]

\* C9 witness: a severity that is neither Severe nor Moderate drawn beside
\* a safety note with "critical" in upper case
C9_Witness ==
    /\ pc = "called"
    /\ SectionJson(1).ok /\ SectionJson(1).val.t = "dict"
    /\ SeverityField = PyStr(w_Minor)
    /\ ComplexityField = PyStr(s_NA)
    /\ SectionJson(3).ok /\ SectionJson(3).val.t = "dict"
    /\ SafetyField = PyStr(w_CRITICAL)

\* the answers of the end-to-end scenario
ScenarioResults ==
    [a \in Aspects |-> CASE a = "damage_assessment" -> DamageSevere
                         [] a = "part_analysis" -> PartsLists
                         [] a = "repair_recommendations" -> RepairNoCritical]

\* a run of app.py over one image is over, and the backend gave the
\* scenario's answers to the display and to the report
ScenarioRan ==
    /\ pc = "done"
    /\ program = "app"
    /\ Len(uploaded_files) = 1
    /\ screen.results = ScenarioResults
    /\ results = ScenarioResults

\* the single report row records Severity "Severe" and Special
\* Requirements true, and the severity field is drawn at alert level
ScenarioRowAndSeverity ==
    /\ Len(report_data) = 1
    /\ report_data[1]["Severity"] = PyStr(s_Severe)
    /\ report_data[1]["Special Requirements"] = PyBool(TRUE)
    /\ WidgetAfter(screen.sections[1], "**Severity:**") = StError(PyStr(s_Severe))

\* C10 as stated: in the scenario the row records Severity "Severe" and
\* Special Requirements true, the severity field is drawn at alert level
\* and the safety note stays at a non-alert level.
C10_SafetyNoteNotAlert ==
    ScenarioRan =>
        /\ ScenarioRowAndSeverity
        /\ WidgetAfter(screen.sections[3], "**Safety Notes:**").w # "error"

\* C10 amended: in the scenario the row records Severity "Severe" and
\* Special Requirements true, the severity field is drawn at alert level,
\* and the safety note "No critical issues" is drawn at alert level too,
\* because it contains "critical".
C10_SafetyNoteAlert ==
    ScenarioRan =>
        /\ ScenarioRowAndSeverity
        /\ WidgetAfter(screen.sections[3], "**Safety Notes:**")
              = StError(PyStr(w_NoCriticalIssues))

\* C10 witness: the scenario has run
C10_Witness == ScenarioRan

(***************************************************************************)
(* C11: the "Parts to Replace" cell of the report row.                     *)
(***************************************************************************)

\* v is a non-empty JSON list of strings
IsPartList(v) ==
    /\ v.t = "list"
    /\ Len(v.items) > 0
    /\ \A n \in 1..Len(v.items) : v.items[n].t = "str"

\* the parsed text is an object holding three distinct non-empty lists
\* repair_parts, replacement_parts and inspection_areas
ThreePartLists(p) ==
    /\ p.ok /\ p.val.t = "dict"
    /\ DictHas(p.val, s_repair_parts)
    /\ DictHas(p.val, s_replacement_parts)
    /\ DictHas(p.val, s_inspection_areas)
    /\ IsPartList(DictGet(p.val, s_repair_parts, PyNone))
    /\ IsPartList(DictGet(p.val, s_replacement_parts, PyNone))
    /\ IsPartList(DictGet(p.val, s_inspection_areas, PyNone))
    /\ DictGet(p.val, s_repair_parts, PyNone) # DictGet(p.val, s_replacement_parts, PyNone)
    /\ DictGet(p.val, s_repair_parts, PyNone) # DictGet(p.val, s_inspection_areas, PyNone)
    /\ DictGet(p.val, s_replacement_parts, PyNone) # DictGet(p.val, s_inspection_areas, PyNone)

\* the elements of a list of strings, joined with ", " in their order
CommaJoined(v) == PyStr(StrJoin(s_comma, [n \in 1..Len(v.items) |-> v.items[n].s]))

\* the cell the parsed part_analysis text calls for
ExpectedPartsCell(p) == CommaJoined(DictGet(p.val, s_replacement_parts, PyNone))

\* the report loop of app.py is about to build the row of image i, whose
\* part_analysis text holds the three lists
PartsRowDue ==
    /\ pc = "returned" /\ pass = "report" /\ program = "app"
    /\ ThreePartLists(json_loads(results["part_analysis"]))

\* the step appended a row, labelled with the image's number
RowAppended ==
    /\ Len(report_data') = Len(report_data) + 1
    /\ report_data'[Len(report_data')]["Image"] = ImageLabel(i)

\* the row the step appended has the expected "Parts to Replace" cell
PartsCellRight ==
    report_data'[Len(report_data')]["Parts to Replace"]
        = ExpectedPartsCell(json_loads(results["part_analysis"]))

\* whenever the report loop does append the row of such an image, its
\* "Parts to Replace" cell is the replacement parts joined in order
PartsCellOfAppendedRow == [][(PartsRowDue /\ RowAppended) => PartsCellRight]_vars

\* C11: for every image whose part_analysis text is a JSON object with three
\* distinct non-empty lists, the report has a row for the image, and the
\* row's "Parts to Replace" cell equals the elements of replacement_parts
\* joined with ", " in their original order.
C11_PartsToReplaceCell == [][PartsRowDue => (RowAppended /\ PartsCellRight)]_vars
====
